---- MODULE Spec2Model ----
(***************************************************************************)
(* Model of the per-sender message sequencer and retry engine of the prb   *)
(* worker manager (standalone/prb/src/messages.rs).                        *)
(*                                                                         *)
(* The dispatcher is a single task draining an unbounded mpsc channel.     *)
(* Every event in the channel was sent by a different producer (an ingest  *)
(* caller, the height tracker, a refresh task, a submission task), and     *)
(* each spawned task sends exactly one event when its RPC returns, so the  *)
(* order in which the loop receives events of different tasks is           *)
(* arbitrary.  The model therefore keeps the spawned tasks as bags and     *)
(* lets the loop receive the event of any of them; one action is one       *)
(* iteration of the loop, i.e. one whole handler.                          *)
(***************************************************************************)
EXTENDS Integers, Sequences, FiniteSets, Bags, TLC

\* ------------------------------------------------------------------ bounds
MaxSeq == 2          \* message sequences are 0..MaxSeq
MaxBatch == 2        \* longest batch offered in one SyncMessages
MaxHeight == 7       \* chain heights are 0..MaxHeight
MaxOffers == 2       \* SyncMessages batches that pass admission in one run
GraceMaxHeight == 18 \* heights of the admission filter's own specification
MaxInserts == 1     \* ContractsKeeper::insert calls in one run
MaxMessages == 2    \* inbound messages of one block
MaxRun == 3         \* blocks the chain holds past the last one replayed before
MaxEvents == 2      \* economic events reported in one run

\* ------------------------------------------------------- program constants
TX_TIMEOUT_IN_BLOCKS == 6

Senders == {"A", "B"}
Workers == {"w1"}
Seqs == 0..MaxSeq
\* heights at both ends of the timeout window of a submission made at 0 or 1
Heights == {h \in 0..MaxHeight : h <= 1 \/ h > TX_TIMEOUT_IN_BLOCKS}

\* Vec<SignedMessage>: only the sequence of a message is read by the dispatcher
\* of a batch; a producer offers its messages in increasing sequence order
Batches == {b \in UNION {[1..n -> Seqs] : n \in 0..MaxBatch} :
               \A i \in 1..(Len(b) - 1) : b[i] < b[i + 1]}

\* Option<u64>: <<>> is None, <<v>> is Some(v)
None == <<>>
Some(v) == <<v>>
NextSeqOptions == {None} \cup {Some(v) : v \in Seqs}

\* anyhow error texts, as token sequences; Ok(()) is the empty text list
TimedOutText == <<"Tx", "timed", "out!">>
ErrTexts == { <<"Tx", "timed", "out!">>,
              <<"rpc:", "Tx", "timed", "out!", "(dropped)">>,
              <<"Tx", "timed">>,
              <<"Invalid", "transaction">> }
Ok == [ok |-> TRUE, err |-> <<>>]
Err(e) == [ok |-> FALSE, err |-> e]
Results == {Ok} \cup {Err(e) : e \in ErrTexts}

\* str::contains on token sequences
contains(text, needle) ==
    \E i \in 0..(Len(text) - Len(needle)) :
        SubSeq(text, i + 1, i + Len(needle)) = needle

States == {"Pending", "Successful", "Failure", "Timeout"}

VARIABLES
    sender_contexts,   \* HashMap<MessageOrigin, SenderContext>
    current_height,    \* u32, local of master_loop
    refresh_tasks,     \* spawned do_update_next_sequence_and_sync_messages
    submit_tasks,      \* spawned do_sync_message
    last,              \* the event handled by the latest loop iteration and its outputs
    offers,            \* number of refresh tasks spawned so far (bounds the run)
    submissions,       \* history: the do_sync_message tasks spawned for each
                       \* MessageContext since it was inserted
    \* ContractsKeeper (keeper.rs)
    contracts,         \* OrdMap<AccountId, Contract>, a contract being its weight
    local_cache,       \* the quotas last handed to pink::local_cache::apply_quotas
    inserts,           \* number of insert calls so far (bounds the run)
    \* replay (replay_gk.rs)
    args,              \* Args, and what the environment holds when replay starts
    factory,           \* ReplayFactory
    pc,                \* where replay() stands
    block_number,      \* local of replay()
    last_checkpoint_block, \* local of replay()
    event_tx,          \* the EventRecords sent to the persistence channel
    files,             \* the checkpoint files written and the checkpoint.latest link
    done               \* what the latest step of replay() did

dispatcher_vars ==
    <<sender_contexts, current_height, refresh_tasks, submit_tasks, last, offers,
      submissions>>

keeper_vars == <<contracts, local_cache, inserts>>

replay_vars ==
    <<args, factory, pc, block_number, last_checkpoint_block, event_tx, files, done>>

vars == <<dispatcher_vars, keeper_vars, replay_vars>>

\* ------------------------------------------------------------ MessageContext
SatSub(a, b) == IF a >= b THEN a - b ELSE 0

\* mutant: the grace window of a timed out message ends one block early
is_pending_short(mc, h) ==
    IF mc.state = "Timeout" THEN
        IF h <= mc.submitted_at THEN TRUE
        ELSE IF SatSub(h, mc.submitted_at) < TX_TIMEOUT_IN_BLOCKS THEN TRUE
        ELSE FALSE
    ELSE IF mc.state = "Pending" THEN
        IF h > mc.submitted_at /\ SatSub(h, mc.submitted_at) > TX_TIMEOUT_IN_BLOCKS
        THEN FALSE
        ELSE TRUE
    ELSE FALSE

is_pending(mc, h) ==
    IF mc.state = "Timeout" THEN
        IF h <= mc.submitted_at THEN TRUE
        ELSE IF SatSub(h, mc.submitted_at) <= TX_TIMEOUT_IN_BLOCKS THEN TRUE
        ELSE FALSE
    ELSE IF mc.state = "Pending" THEN
        IF h > mc.submitted_at /\ SatSub(h, mc.submitted_at) > TX_TIMEOUT_IN_BLOCKS
        THEN FALSE
        ELSE TRUE
    ELSE FALSE

\* mutant: a message in flight does not count
is_success(mc, h) == mc.state = "Successful"

is_pending_or_success(mc, h) == is_pending(mc, h) \/ mc.state = "Successful"

is_timeout_or_failure(mc, h) == ~is_pending_or_success(mc, h)

\* ------------------------------------------------------------- SenderContext
RECURSIVE NextSequenceFrom(_, _, _)
NextSequenceFrom(sc, h, n) ==
    IF n \in DOMAIN sc.pending_messages
       /\ is_pending_or_success(sc.pending_messages[n], h)
    THEN NextSequenceFrom(sc, h, n + 1)
    ELSE n

\* mutant: calculate_next_sequence does not advance
calculate_next_sequence_node(sc, h) == sc.node_next_sequence

\* mutant: advances over every known sequence, pending-or-success or not
RECURSIVE NextUnknownFrom(_, _)
NextUnknownFrom(sc, n) ==
    IF n \in DOMAIN sc.pending_messages THEN NextUnknownFrom(sc, n + 1) ELSE n

calculate_next_sequence_known(sc, h) == NextUnknownFrom(sc, sc.node_next_sequence)

\* mutant: advances over the messages that have succeeded only
RECURSIVE NextNotSuccessfulFrom(_, _)
NextNotSuccessfulFrom(sc, n) ==
    IF n \in DOMAIN sc.pending_messages /\ sc.pending_messages[n].state = "Successful"
    THEN NextNotSuccessfulFrom(sc, n + 1)
    ELSE n

calculate_next_sequence_successful(sc, h) ==
    NextNotSuccessfulFrom(sc, sc.node_next_sequence)

calculate_next_sequence(sc, h) == NextSequenceFrom(sc, h, sc.node_next_sequence)

\* ------------------------------------------------------------------ helpers
EmptyMap == [x \in {} |-> 0]

\* what the latest loop iteration did: the event received, the branch its
\* handler took, and what the handler passed on: the messages forwarded to a
\* refresh task, the sequences dispatched to the TxManager, the worker updates
\* sent on the bus
NoEvent ==
    [ev |-> "None", sender |-> "", messages |-> <<>>, next_sequence |-> None,
     branch |-> "", sequences |-> <<>>, steps |-> <<>>, updates |-> <<>>]

\* the parts of the program a specification does not run stay as constructed
NoDispatcher ==
    /\ sender_contexts = EmptyMap
    /\ current_height = 0
    /\ refresh_tasks = EmptyBag
    /\ submit_tasks = EmptyBag
    /\ last = NoEvent
    /\ offers = 0
    /\ submissions = EmptyMap

NoKeeper ==
    /\ contracts = EmptyMap
    /\ local_cache = None
    /\ inserts = 0

NoReplay ==
    /\ args = None
    /\ factory = None
    /\ pc = "not_started"
    /\ block_number = 0
    /\ last_checkpoint_block = 0
    /\ event_tx = <<>>
    /\ files = None
    /\ done = None

Init ==
    /\ sender_contexts = EmptyMap
    /\ current_height = 0
    /\ refresh_tasks = EmptyBag
    /\ submit_tasks = EmptyBag
    /\ last = NoEvent
    /\ offers = 0
    /\ submissions = EmptyMap
    /\ NoKeeper
    /\ NoReplay

\* ------------------------------------------------- MessagesEvent::SyncMessages
\* mutant: the filter asks only whether the message is pending
admit_unless_pending(sc, sequence, h) ==
    IF sequence \in DOMAIN sc.pending_messages
    THEN ~is_pending(sc.pending_messages[sequence], h)
    ELSE TRUE

\* the closure of the admission filter
admit(sc, sequence, h) ==
    IF sequence \in DOMAIN sc.pending_messages
    THEN is_timeout_or_failure(sc.pending_messages[sequence], h)
    ELSE TRUE

RECURSIVE filter_messages(_, _, _)
filter_messages(sc, messages, h) ==
    IF messages = <<>> THEN <<>>
    ELSE IF admit(sc, Head(messages), h)
         THEN <<Head(messages)>> \o filter_messages(sc, Tail(messages), h)
         ELSE filter_messages(sc, Tail(messages), h)

admitted(sender, messages) ==
    IF sender \in DOMAIN sender_contexts
    THEN filter_messages(sender_contexts[sender], messages, current_height)
    ELSE messages

RefreshTask(worker, sender, messages) ==
    [worker |-> worker, sender |-> sender, messages |-> messages]

SyncMessages(worker, sender, messages) ==
    LET kept == admitted(sender, messages) IN
    /\ kept # <<>> => offers < MaxOffers
    /\ refresh_tasks' =
          IF kept = <<>> THEN refresh_tasks
          ELSE refresh_tasks (+) SetToBag({RefreshTask(worker, sender, kept)})
    /\ offers' = IF kept = <<>> THEN offers ELSE offers + 1
    /\ last' = [NoEvent EXCEPT !.ev = "SyncMessages", !.sender = sender,
                               !.messages = messages, !.sequences = kept,
                               !.branch = IF kept = <<>> THEN "filtered" ELSE "spawned"]
    /\ UNCHANGED <<sender_contexts, current_height, submit_tasks, submissions>>
    /\ UNCHANGED <<keeper_vars, replay_vars>>

\* ----------------------------------------------- MessagesEvent::DoSyncMessages
NewSenderContext(sender, next_sequence) ==
    [sender |-> sender, node_next_sequence |-> next_sequence,
     pending_messages |-> EmptyMap]

\* mutant: the first submission counts as a try
NewMessageContext_first_try(sender, sequence, h) ==
    [sender |-> sender, sequence |-> sequence, state |-> "Pending",
     submitted_at |-> h, prev_try_count |-> 1]

NewMessageContext(sender, sequence, h) ==
    [sender |-> sender, sequence |-> sequence, state |-> "Pending",
     submitted_at |-> h, prev_try_count |-> 0]

\* mutant: the retry does not count itself
RetryMessageContext_uncounted(mc, h) ==
    [mc EXCEPT !.state = "Pending", !.submitted_at = h]

RetryMessageContext(mc, h) ==
    [mc EXCEPT !.state = "Pending", !.submitted_at = h,
               !.prev_try_count = mc.prev_try_count + 1]

\* one iteration of `for message in messages`
sync_one(sc, sequence, h) ==
    LET next_sequence == calculate_next_sequence(sc, h)
        step(branch) == [sequence |-> sequence, next_sequence |-> next_sequence,
                         branch |-> branch, before |-> sc]
    IN  IF sequence # next_sequence
        THEN [ctx |-> sc, step |-> step("ignored")]
        ELSE IF sequence \in DOMAIN sc.pending_messages
        THEN IF is_pending_or_success(sc.pending_messages[sequence], h)
             THEN [ctx |-> sc, step |-> step("pending_or_success")]
             ELSE [ctx |-> [sc EXCEPT !.pending_messages[sequence] =
                                          RetryMessageContext(@, h)],
                   step |-> step("retry")]
        ELSE [ctx |-> [sc EXCEPT !.pending_messages =
                           @ @@ (sequence :> NewMessageContext(sc.sender, sequence, h))],
              step |-> step("new")]

\* mutant: the loop ends at the first message it ignores
RECURSIVE sync_all_break(_, _, _, _)
sync_all_break(sc, messages, h, steps) ==
    IF messages = <<>> THEN [ctx |-> sc, steps |-> steps]
    ELSE LET r == sync_one(sc, Head(messages), h)
         IN  IF r.step.branch = "ignored"
             THEN [ctx |-> r.ctx, steps |-> Append(steps, r.step)]
             ELSE sync_all_break(r.ctx, Tail(messages), h, Append(steps, r.step))

RECURSIVE sync_all(_, _, _, _)
sync_all(sc, messages, h, steps) ==
    IF messages = <<>> THEN [ctx |-> sc, steps |-> steps]
    ELSE LET r == sync_one(sc, Head(messages), h)
         IN  sync_all(r.ctx, Tail(messages), h, Append(steps, r.step))

Dispatched(step) == step.branch \in {"retry", "new"}

RECURSIVE spawned_submissions(_, _, _)
spawned_submissions(worker, sender, steps) ==
    IF steps = <<>> THEN EmptyBag
    ELSE (IF Dispatched(Head(steps))
          THEN SetToBag({[worker |-> worker, sender |-> sender,
                          sequence |-> Head(steps).sequence]})
          ELSE EmptyBag)
         (+) spawned_submissions(worker, sender, Tail(steps))

\* mutant: a new sender starts at sequence 0 whatever the node reports
entry_context_from_zero(sender, next_sequence) ==
    IF sender \in DOMAIN sender_contexts
    THEN IF next_sequence # None
         THEN [sender_contexts[sender] EXCEPT !.node_next_sequence = next_sequence[1]]
         ELSE sender_contexts[sender]
    ELSE NewSenderContext(sender, 0)

\* mutant: a known sender keeps its node_next_sequence whatever the node reports
entry_context_keep(sender, next_sequence) ==
    IF sender \in DOMAIN sender_contexts
    THEN sender_contexts[sender]
    ELSE NewSenderContext(sender, next_sequence[1])

\* the sender context the loop over the messages starts from
entry_context(sender, next_sequence) ==
    IF sender \in DOMAIN sender_contexts
    THEN IF next_sequence # None
         THEN [sender_contexts[sender] EXCEPT !.node_next_sequence = next_sequence[1]]
         ELSE sender_contexts[sender]
    ELSE NewSenderContext(sender, next_sequence[1])

RECURSIVE dispatched_sequences(_)
dispatched_sequences(steps) ==
    IF steps = <<>> THEN <<>>
    ELSE (IF Dispatched(Head(steps)) THEN <<Head(steps).sequence>> ELSE <<>>)
         \o dispatched_sequences(Tail(steps))

\* what the log of the loop over the messages shows of each message
RECURSIVE logged(_)
logged(steps) ==
    IF steps = <<>> THEN <<>>
    ELSE <<[sequence |-> Head(steps).sequence, branch |-> Head(steps).branch,
            was |-> IF Head(steps).sequence \in DOMAIN Head(steps).before.pending_messages
                    THEN Head(steps).before.pending_messages[Head(steps).sequence].state
                    ELSE "None"]>>
         \o logged(Tail(steps))

\* the submissions spawned so far for the MessageContext of a sender and sequence
SubmissionsOf(sender, sequence) ==
    IF sender \in DOMAIN submissions /\ sequence \in DOMAIN submissions[sender]
    THEN submissions[sender][sequence]
    ELSE 0

DoSyncMessages(task, next_sequence) ==
    LET ev == [NoEvent EXCEPT !.ev = "DoSyncMessages", !.sender = task.sender,
                              !.messages = task.messages,
                              !.next_sequence = next_sequence]
    IN
    /\ BagIn(task, refresh_tasks)
    /\ refresh_tasks' = refresh_tasks (-) SetToBag({task})
    /\ IF task.sender \notin DOMAIN sender_contexts /\ next_sequence = None
       THEN /\ last' = [ev EXCEPT !.branch = "abandoned"]
            /\ UNCHANGED <<sender_contexts, submit_tasks, submissions>>
       ELSE LET r == sync_all(entry_context(task.sender, next_sequence),
                              task.messages, current_height, <<>>)
                spawned == spawned_submissions(task.worker, task.sender, r.steps)
                tasks == submit_tasks (+) spawned
            IN  /\ sender_contexts' =
                       [s \in DOMAIN sender_contexts \cup {task.sender} |->
                           IF s = task.sender THEN r.ctx ELSE sender_contexts[s]]
                /\ submit_tasks' = tasks
                /\ submissions' =
                       [s \in DOMAIN sender_contexts \cup {task.sender} |->
                           IF s = task.sender
                           THEN [q \in DOMAIN r.ctx.pending_messages |->
                                    SubmissionsOf(task.sender, q)
                                    + CopiesIn([worker |-> task.worker,
                                                sender |-> task.sender,
                                                sequence |-> q], spawned)]
                           ELSE submissions[s]]
                /\ last' = [ev EXCEPT !.branch = IF task.sender \in DOMAIN sender_contexts
                                                 THEN "known_sender" ELSE "new_sender",
                                      !.sequences = dispatched_sequences(r.steps),
                                      !.steps = logged(r.steps)]
    /\ UNCHANGED <<current_height, offers>>
    /\ UNCHANGED <<keeper_vars, replay_vars>>

\* ---------------------------------------------------- MessagesEvent::Completed
\* mutant: the error text is compared, not searched
completed_state_exact(result) ==
    IF result.ok THEN "Successful"
    ELSE IF result.err = TimedOutText THEN "Timeout"
    ELSE "Failure"

completed_state(result) ==
    IF result.ok THEN "Successful"
    ELSE IF contains(result.err, TimedOutText) THEN "Timeout"
    ELSE "Failure"

WorkerUpdate(worker, err) == [worker |-> worker, err |-> err]

\* mutant: the error is reported to the worker before the context is looked up
on_completed_reporting(contexts, task, result) ==
    LET updates == IF result.ok THEN <<>> ELSE <<WorkerUpdate(task.worker, result.err)>>
    IN  IF task.sender \notin DOMAIN contexts
        THEN [contexts |-> contexts, branch |-> "sender_not_found", updates |-> updates]
        ELSE IF task.sequence \notin DOMAIN contexts[task.sender].pending_messages
        THEN [contexts |-> contexts, branch |-> "sequence_not_found", updates |-> updates]
        ELSE [contexts |-> [contexts EXCEPT
                               ![task.sender].pending_messages[task.sequence].state =
                                   completed_state(result)],
              branch |-> "marked", updates |-> updates]

\* mutant: the completion stamps the context with the height it arrives at
on_completed_stamping(contexts, task, result) ==
    IF task.sender \notin DOMAIN contexts
    THEN [contexts |-> contexts, branch |-> "sender_not_found", updates |-> <<>>]
    ELSE IF task.sequence \notin DOMAIN contexts[task.sender].pending_messages
    THEN [contexts |-> contexts, branch |-> "sequence_not_found", updates |-> <<>>]
    ELSE [contexts |-> [contexts EXCEPT
                           ![task.sender].pending_messages[task.sequence] =
                               [@ EXCEPT !.state = completed_state(result),
                                         !.submitted_at = current_height]],
          branch |-> "marked",
          updates |-> IF result.ok THEN <<>>
                      ELSE <<WorkerUpdate(task.worker, result.err)>>]

\* the handler of Completed on the sender contexts: the contexts it leaves, the
\* branch it takes and the worker updates it sends
on_completed(contexts, task, result) ==
    IF task.sender \notin DOMAIN contexts
    THEN [contexts |-> contexts, branch |-> "sender_not_found", updates |-> <<>>]
    ELSE IF task.sequence \notin DOMAIN contexts[task.sender].pending_messages
    THEN [contexts |-> contexts, branch |-> "sequence_not_found", updates |-> <<>>]
    ELSE [contexts |-> [contexts EXCEPT
                           ![task.sender].pending_messages[task.sequence].state =
                               completed_state(result)],
          branch |-> "marked",
          updates |-> IF result.ok THEN <<>>
                      ELSE <<WorkerUpdate(task.worker, result.err)>>]

Completed(task, result) ==
    LET r == on_completed(sender_contexts, task, result) IN
    /\ BagIn(task, submit_tasks)
    /\ submit_tasks' = submit_tasks (-) SetToBag({task})
    /\ sender_contexts' = r.contexts
    /\ last' = [NoEvent EXCEPT !.ev = "Completed", !.sender = task.sender,
                               !.sequences = <<task.sequence>>,
                               !.branch = r.branch, !.updates = r.updates]
    /\ UNCHANGED <<current_height, refresh_tasks, offers, submissions>>
    /\ UNCHANGED <<keeper_vars, replay_vars>>

\* ------------------------------------------------- MessagesEvent::RemoveSender
\* mutant: the sender's messages are dropped, its SenderContext is kept
RemoveSender_clear(sender) ==
    /\ sender_contexts' =
          [s \in DOMAIN sender_contexts |->
              IF s = sender
              THEN [sender_contexts[s] EXCEPT !.pending_messages = EmptyMap]
              ELSE sender_contexts[s]]
    /\ submissions' =
          [s \in DOMAIN submissions |-> IF s = sender THEN EmptyMap ELSE submissions[s]]
    /\ last' = [NoEvent EXCEPT !.ev = "RemoveSender", !.sender = sender,
                               !.branch = IF sender \in DOMAIN sender_contexts
                                          THEN "removed" ELSE "does_not_exist"]
    /\ UNCHANGED <<current_height, refresh_tasks, submit_tasks, offers>>
    /\ UNCHANGED <<keeper_vars, replay_vars>>

RemoveSender(sender) ==
    /\ sender_contexts' =
          [s \in DOMAIN sender_contexts \ {sender} |-> sender_contexts[s]]
    /\ submissions' = [s \in DOMAIN submissions \ {sender} |-> submissions[s]]
    /\ last' = [NoEvent EXCEPT !.ev = "RemoveSender", !.sender = sender,
                               !.branch = IF sender \in DOMAIN sender_contexts
                                          THEN "removed" ELSE "does_not_exist"]
    /\ UNCHANGED <<current_height, refresh_tasks, submit_tasks, offers>>
    /\ UNCHANGED <<keeper_vars, replay_vars>>

\* ------------------------------------------------ MessagesEvent::CurrentHeight
CurrentHeight(height) ==
    /\ current_height' = height
    /\ last' = [NoEvent EXCEPT !.ev = "CurrentHeight", !.branch = "updated"]
    /\ UNCHANGED <<sender_contexts, refresh_tasks, submit_tasks, offers, submissions>>
    /\ UNCHANGED <<keeper_vars, replay_vars>>

\* ------------------------------------------------------------------ master_loop
Next ==
    \/ \E w \in Workers, s \in Senders, m \in Batches : SyncMessages(w, s, m)
    \/ \E t \in BagToSet(refresh_tasks), n \in NextSeqOptions : DoSyncMessages(t, n)
    \/ \E t \in BagToSet(submit_tasks), r \in Results : Completed(t, r)
    \/ \E s \in Senders : RemoveSender(s)
    \/ \E h \in Heights : CurrentHeight(h)

Spec == Init /\ [][Next]_vars

\* ---------------------------------------- the admission filter over all heights
\* A sender with one message in any state, submitted at any height, re-offered
\* at any height: the inputs of is_pending and of the admission filter.
WideHeights == 0..GraceMaxHeight

InitGrace ==
    /\ \E state \in States, submitted_at \in WideHeights :
          /\ sender_contexts =
                ("A" :> [NewSenderContext("A", 0) EXCEPT !.pending_messages =
                            (0 :> [NewMessageContext("A", 0, submitted_at)
                                      EXCEPT !.state = state])])
          /\ current_height = submitted_at
    /\ refresh_tasks = EmptyBag
    /\ submit_tasks = EmptyBag
    /\ last = NoEvent
    /\ offers = 0
    /\ submissions = ("A" :> (0 :> 1))
    /\ NoKeeper
    /\ NoReplay

NextGrace ==
    \/ \E w \in Workers, m \in {b \in Batches : Len(b) <= 1} : SyncMessages(w, "A", m)
    \/ \E h \in WideHeights : CurrentHeight(h)

SpecGrace == InitGrace /\ [][NextGrace]_vars

TypeOK ==
    /\ DOMAIN sender_contexts \subseteq Senders
    /\ current_height \in Heights
    /\ offers \in 0..MaxOffers
    /\ \A s \in DOMAIN sender_contexts :
          /\ sender_contexts[s].sender = s
          /\ sender_contexts[s].node_next_sequence \in Seqs
          /\ DOMAIN sender_contexts[s].pending_messages \subseteq Seqs
          /\ \A n \in DOMAIN sender_contexts[s].pending_messages :
                /\ sender_contexts[s].pending_messages[n].sequence = n
                /\ sender_contexts[s].pending_messages[n].sender = s
                /\ sender_contexts[s].pending_messages[n].state \in States
                /\ sender_contexts[s].pending_messages[n].submitted_at \in Heights

\* ------------------------------------------------- unsigned machine integers
\* A value of a type wider than the checker's integers (u32, u64, usize) is the
\* sequence of its bytes, least significant first; the operators below are the
\* machine's: they keep the width of their first operand and wrap at it.
RECURSIVE to_le_bytes(_, _)
to_le_bytes(v, n) ==
    IF n = 0 THEN <<>> ELSE <<v % 256>> \o to_le_bytes(v \div 256, n - 1)

Zero(n) == [i \in 1..n |-> 0]

u32_MAX == [i \in 1..4 |-> 255]

\* `x as T` between unsigned types of Len(a) and n bytes: zero-extends or truncates
as_bytes(a, n) == [i \in 1..n |-> IF i <= Len(a) THEN a[i] ELSE 0]

\* a * m + c for a byte m and a carry c, with one more byte than a
RECURSIVE mul_byte(_, _, _)
mul_byte(a, m, c) ==
    IF a = <<>> THEN <<c>>
    ELSE LET t == Head(a) * m + c
         IN  <<t % 256>> \o mul_byte(Tail(a), m, t \div 256)

\* a + b + c for a carry c, with one more byte than a
RECURSIVE add_carry(_, _, _)
add_carry(a, b, c) ==
    IF a = <<>> THEN <<c>>
    ELSE LET t == Head(a) + Head(b) + c
         IN  <<t % 256>> \o add_carry(Tail(a), Tail(b), t \div 256)

wrapping_add(a, b) == SubSeq(add_carry(a, b, 0), 1, Len(a))

add_overflows(a, b) == add_carry(a, b, 0)[Len(a) + 1] # 0

RECURSIVE sub_borrow(_, _, _)
sub_borrow(a, b, c) ==
    IF a = <<>> THEN <<>>
    ELSE LET t == Head(a) - Head(b) - c
         IN  <<(t + 256) % 256>> \o sub_borrow(Tail(a), Tail(b), IF t < 0 THEN 1 ELSE 0)

wrapping_sub(a, b) == sub_borrow(a, b, 0)

\* a < b: the most significant byte in which they differ is smaller in a
less(a, b) ==
    \E i \in 1..Len(a) : a[i] < b[i] /\ \A j \in (i + 1)..Len(a) : a[j] = b[j]

\* 2 * a + b0 for a bit b0, wrapping
shl1(a, b0) ==
    [i \in 1..Len(a) |-> (2 * a[i] + (IF i = 1 THEN b0 ELSE a[i - 1] \div 128)) % 256]

RECURSIVE wrapping_mul(_, _)
wrapping_mul(a, b) ==
    IF b = <<>> THEN Zero(Len(a))
    ELSE wrapping_add(SubSeq(mul_byte(a, Head(b), 0), 1, Len(a)),
                      SubSeq(<<0>> \o wrapping_mul(a, Tail(b)), 1, Len(a)))

bit(a, i) == (a[(i \div 8) + 1] \div (2 ^ (i % 8))) % 2

set_bit(a, i) == [a EXCEPT ![(i \div 8) + 1] = @ + 2 ^ (i % 8)]

\* long division, one bit of the dividend at a time, from bit i - 1 down
RECURSIVE div_from(_, _, _, _, _)
div_from(a, d, i, r, q) ==
    IF i = 0 THEN q
    ELSE LET r1 == shl1(r, bit(a, i - 1))
         IN  IF less(r1, d)
             THEN div_from(a, d, i - 1, r1, q)
             ELSE div_from(a, d, i - 1, wrapping_sub(r1, d), set_bit(q, i - 1))

DivideByZero == <<"attempt to divide by zero">>

\* a / d of the machine: the quotient, or the panic of a zero divisor
checked_div(a, d) ==
    IF d = Zero(Len(d)) THEN DivideByZero
    ELSE div_from(a, as_bytes(d, Len(a) + 1), 8 * Len(a), Zero(Len(a) + 1), Zero(Len(a)))

max_bytes(a, b) == IF less(a, b) THEN b ELSE a

\* ----------------------------------------------------------- ContractsKeeper
TOTAL_MEMORY == to_le_bytes(1024 * 1024 * 20, 8)

\* contract addresses, as byte strings
Addresses == {<<1>>, <<1, 2>>, <<2>>}

\* contract weights (u32)
Weights == {to_le_bytes(0, 4), to_le_bytes(1, 4), to_le_bytes(3, 4),
            wrapping_sub(u32_MAX, to_le_bytes(1, 4)), u32_MAX}

\* usize of the targets the crate builds for, in bytes
PointerWidths == {4, 8}

\* Ord of byte strings: lexicographic, a proper prefix first
RECURSIVE key_less(_, _)
key_less(a, b) ==
    IF b = <<>> THEN FALSE
    ELSE IF a = <<>> THEN TRUE
    ELSE IF Head(a) # Head(b) THEN Head(a) < Head(b)
    ELSE key_less(Tail(a), Tail(b))

\* the keys of an OrdMap in the order its iterators yield them
RECURSIVE ordered(_)
ordered(keys) ==
    IF keys = {} THEN <<>>
    ELSE LET first == CHOOSE k \in keys : \A o \in keys \ {k} : key_less(k, o)
         IN  <<first>> \o ordered(keys \ {first})

to_weight(contract) == contract

RECURSIVE sum_u64(_, _)
sum_u64(map, keys) ==
    IF keys = <<>> THEN Zero(8)
    ELSE wrapping_add(as_bytes(to_weight(map[Head(keys)]), 8), sum_u64(map, Tail(keys)))

\* mutant: the sum of the weights is not raised to 1
total_weight_of_unclamped(map) == sum_u64(map, ordered(DOMAIN map))

\* mutant: the sum of the weights is kept off zero by adding 1
total_weight_of_plus_one(map) ==
    wrapping_add(sum_u64(map, ordered(DOMAIN map)), to_le_bytes(1, 8))

total_weight_of(map) == max_bytes(sum_u64(map, ordered(DOMAIN map)), to_le_bytes(1, 8))

\* mutant: the quota is rounded up
contract_quota_rounded_up(contract, total_weight, usize_bytes) ==
    LET quota == checked_div(
                     wrapping_sub(
                         wrapping_add(
                             wrapping_mul(TOTAL_MEMORY, as_bytes(to_weight(contract), 8)),
                             total_weight),
                         to_le_bytes(1, 8)),
                     total_weight)
    IN  IF quota = DivideByZero THEN DivideByZero ELSE as_bytes(quota, usize_bytes)

\* mutant: the product is computed in 32 bits
contract_quota_u32(contract, total_weight, usize_bytes) ==
    LET quota == checked_div(
                     as_bytes(wrapping_mul(as_bytes(TOTAL_MEMORY, 4), to_weight(contract)), 8),
                     total_weight)
    IN  IF quota = DivideByZero THEN DivideByZero ELSE as_bytes(quota, usize_bytes)

contract_quota(contract, total_weight, usize_bytes) ==
    LET quota == checked_div(wrapping_mul(TOTAL_MEMORY, as_bytes(to_weight(contract), 8)),
                             total_weight)
    IN  IF quota = DivideByZero THEN DivideByZero ELSE as_bytes(quota, usize_bytes)

calc_cache_quotas(map, usize_bytes) ==
    LET keys == ordered(DOMAIN map)
        total_weight == total_weight_of(map)
    IN  [i \in 1..Len(keys) |->
            [id |-> keys[i],
             quota |-> contract_quota(map[keys[i]], total_weight, usize_bytes)]]

\* ContractsKeeper::insert, of a contract with its address and weight
insert(address, weight) ==
    /\ inserts < MaxInserts
    /\ inserts' = inserts + 1
    /\ contracts' = [k \in DOMAIN contracts \cup {address} |->
                        IF k = address THEN weight ELSE contracts[k]]
    /\ UNCHANGED local_cache
    /\ UNCHANGED <<dispatcher_vars, replay_vars>>

drain ==
    /\ contracts # EmptyMap
    /\ contracts' = EmptyMap
    /\ UNCHANGED <<local_cache, inserts>>
    /\ UNCHANGED <<dispatcher_vars, replay_vars>>

apply_local_cache_quotas(usize_bytes) ==
    /\ local_cache' = Some(calc_cache_quotas(contracts, usize_bytes))
    /\ UNCHANGED <<contracts, inserts>>
    /\ UNCHANGED <<dispatcher_vars, replay_vars>>

\* a keeper holding any set of contracts
InitKeeper ==
    /\ \E keys \in SUBSET Addresses : contracts \in [keys -> Weights]
    /\ local_cache = None
    /\ inserts = 0
    /\ NoDispatcher
    /\ NoReplay

NextKeeper ==
    \/ \E a \in Addresses, w \in Weights : insert(a, w)
    \/ drain
    \/ \E b \in PointerWidths : apply_local_cache_quotas(b)

SpecKeeper == InitKeeper /\ [][NextKeeper]_vars

\* =================================================================== claims
\* the predicates of the specification's table of pending states, on a MessageContext
InWindow(mc, h) == h <= mc.submitted_at \/ h - mc.submitted_at <= 6

PendingAt(mc, h) == mc.state \in {"Pending", "Timeout"} /\ InWindow(mc, h)

PendingOrSuccessAt(mc, h) == mc.state = "Successful" \/ PendingAt(mc, h)

\* the steps the handler of DoSyncMessages(task, next_sequence) takes from this state
StepsOf(task, next_sequence) ==
    sync_all(entry_context(task.sender, next_sequence), task.messages,
             current_height, <<>>).steps

\* the handler of DoSyncMessages(task, next_sequence) runs and does not abandon the batch
Synced(task, next_sequence) ==
    DoSyncMessages(task, next_sequence) /\ last'.branch # "abandoned"

\* in the sender context sc, n is the first sequence from node_next_sequence on
\* that is not pending-or-success at h
FirstNotPendingOrSuccess(sc, n, h) ==
    /\ n >= sc.node_next_sequence
    /\ \A k \in sc.node_next_sequence..(n - 1) :
          /\ k \in DOMAIN sc.pending_messages
          /\ PendingOrSuccessAt(sc.pending_messages[k], h)
    /\ n \in DOMAIN sc.pending_messages =>
          ~PendingOrSuccessAt(sc.pending_messages[n], h)

\* C1: whenever the handler of DoSyncMessages dispatches a submission for
\* sequence n of a sender at height h, every sequence in [node_next_sequence, n)
\* has at that moment a context that is pending-or-success at h, and n itself has
\* no context or one that is not pending-or-success at h.
C1_StrictSubmissionOrder ==
    [][last'.ev = "DoSyncMessages" =>
          \A t \in BagToSet(refresh_tasks), n \in {last'.next_sequence} :
              Synced(t, n) =>
                  \A i \in 1..Len(StepsOf(t, n)) :
                      LET st == StepsOf(t, n)[i] IN
                      Dispatched(st) =>
                          FirstNotPendingOrSuccess(st.before, st.sequence, current_height)]_vars

\* a batch dispatched a sequence above node_next_sequence, after one below it
C1_Witness ==
    /\ last.ev = "DoSyncMessages"
    /\ last.sender \in DOMAIN sender_contexts
    /\ \E i \in 1..Len(last.sequences) :
          last.sequences[i] > sender_contexts[last.sender].node_next_sequence
    /\ \E n \in DOMAIN sender_contexts[last.sender].pending_messages :
          sender_contexts[last.sender].pending_messages[n].state = "Failure"

\* the context of sequence q after step i of the handler: the one the next step
\* starts from, or the one the handler leaves
ContextAfter(steps, i, sender) ==
    IF i < Len(steps) THEN steps[i + 1].before ELSE sender_contexts'[sender]

\* C2: a message whose context is in state Failure and whose sequence is the
\* expected next one is submitted again, its context becoming Pending with
\* submitted_at the current height and prev_try_count one more; a message
\* without a context whose sequence is the expected next one is submitted with a
\* new context Pending, submitted_at the current height, prev_try_count 0.
C2_RetryAndFirstSubmission ==
    [][last'.ev = "DoSyncMessages" =>
          \A t \in BagToSet(refresh_tasks), n \in {last'.next_sequence} :
              Synced(t, n) =>
                  \A i \in 1..Len(StepsOf(t, n)) :
                      LET st    == StepsOf(t, n)[i]
                          q     == st.sequence
                          old   == st.before.pending_messages
                          new   == ContextAfter(StepsOf(t, n), i, t.sender).pending_messages
                          final == sender_contexts'[t.sender].pending_messages
                      IN  q = calculate_next_sequence(st.before, current_height) =>
                            /\ (q \in DOMAIN old /\ old[q].state = "Failure") =>
                                  /\ Dispatched(st)
                                  /\ new[q].state = "Pending"
                                  /\ new[q].submitted_at = current_height
                                  /\ new[q].prev_try_count = old[q].prev_try_count + 1
                                  /\ final[q] = new[q]
                            /\ q \notin DOMAIN old =>
                                  /\ Dispatched(st)
                                  /\ new[q].state = "Pending"
                                  /\ new[q].submitted_at = current_height
                                  /\ new[q].prev_try_count = 0
                                  /\ final[q] = new[q]]_vars

\* a message that had failed has just been submitted again
C2_Witness ==
    /\ last.ev = "DoSyncMessages"
    /\ \E i \in 1..Len(last.steps) :
          /\ last.steps[i].was = "Failure"
          /\ last.steps[i].branch = "retry"
          /\ last.steps[i].sequence \in DOMAIN sender_contexts[last.sender].pending_messages
          /\ sender_contexts[last.sender].pending_messages[last.steps[i].sequence].prev_try_count = 1
          /\ current_height > 0

Range(s) == {s[i] : i \in 1..Len(s)}

\* C3: a context in state Timeout or Pending submitted at s is pending at h
\* exactly when h <= s or h - s <= 6, and a Successful or Failure context is
\* never pending; so the admission filter drops a re-offered message in state
\* Timeout up to height s + 6 and forwards it from height s + 7 on (submitted at
\* 10: dropped at 14 and 16, forwarded at 17).
C3_TimeoutThreshold ==
    /\ \A s \in DOMAIN sender_contexts :
          \A n \in DOMAIN sender_contexts[s].pending_messages :
              LET mc == sender_contexts[s].pending_messages[n] IN
              \A h \in WideHeights : is_pending(mc, h) = PendingAt(mc, h)
    /\ (last.ev = "SyncMessages" /\ last.sender \in DOMAIN sender_contexts) =>
          \A q \in Range(last.messages) :
              LET pm == sender_contexts[last.sender].pending_messages IN
              (q \in DOMAIN pm /\ pm[q].state = "Timeout") =>
                  /\ current_height <= pm[q].submitted_at + 6 =>
                        q \notin Range(last.sequences)
                  /\ current_height >= pm[q].submitted_at + 7 =>
                        q \in Range(last.sequences)

\* a message submitted at 10 that timed out is re-offered at 14 and dropped
C3_Witness ==
    /\ last.ev = "SyncMessages"
    /\ last.messages = <<0>>
    /\ last.branch = "filtered"
    /\ current_height = 14
    /\ "A" \in DOMAIN sender_contexts
    /\ sender_contexts["A"].pending_messages[0].state = "Timeout"
    /\ sender_contexts["A"].pending_messages[0].submitted_at = 10

\* C4: for a known sender, SyncMessages forwards no message whose context is
\* Successful, at any height, and when every message of the batch is dropped it
\* spawns no refresh task (so that no DoSyncMessages follows) and nothing else.
C4_AdmissionIdempotent ==
    [][last'.ev = "SyncMessages" =>
          \A w \in Workers, s \in {last'.sender}, m \in {last'.messages} :
              (SyncMessages(w, s, m) /\ s \in DOMAIN sender_contexts) =>
                  LET pm == sender_contexts[s].pending_messages
                      spawned == refresh_tasks' (-) refresh_tasks
                  IN  /\ \A task \in BagToSet(spawned) :
                            \A q \in Range(task.messages) :
                                ~(q \in DOMAIN pm /\ pm[q].state = "Successful")
                      /\ (\A q \in Range(m) :
                              /\ q \in DOMAIN pm
                              /\ PendingOrSuccessAt(pm[q], current_height)) =>
                            /\ refresh_tasks' = refresh_tasks
                            /\ submit_tasks' = submit_tasks
                            /\ sender_contexts' = sender_contexts]_vars

\* a batch of Successful messages only has been offered again and dropped
C4_Witness ==
    /\ last.ev = "SyncMessages"
    /\ last.branch = "filtered"
    /\ last.messages # <<>>
    /\ last.sender \in DOMAIN sender_contexts
    /\ \A q \in Range(last.messages) :
          /\ q \in DOMAIN sender_contexts[last.sender].pending_messages
          /\ sender_contexts[last.sender].pending_messages[q].state = "Successful"
    /\ \E q \in DOMAIN sender_contexts[last.sender].pending_messages :
          current_height > sender_contexts[last.sender].pending_messages[q].submitted_at + 6

\* the error texts that hold the words "Tx timed out!"
TimedOutErrTexts == { <<"Tx", "timed", "out!">>,
                      <<"rpc:", "Tx", "timed", "out!", "(dropped)">> }

\* C5: a Completed event for a known sender and sequence leaves the context in
\* state Successful for Ok, Timeout for an error whose text holds
\* "Tx timed out!", Failure for any other error.
C5_CompletionMapping ==
    [][last'.ev = "Completed" =>
          \A t \in BagToSet(submit_tasks), r \in Results :
              (/\ Completed(t, r)
               /\ t.sender \in DOMAIN sender_contexts
               /\ t.sequence \in DOMAIN sender_contexts[t.sender].pending_messages) =>
                  sender_contexts'[t.sender].pending_messages[t.sequence].state =
                      IF r.ok THEN "Successful"
                      ELSE IF r.err \in TimedOutErrTexts THEN "Timeout"
                      ELSE "Failure"]_vars

\* a completion whose error text holds "Tx timed out!" among other words
C5_Witness ==
    /\ last.ev = "Completed"
    /\ last.branch = "marked"
    /\ last.updates # <<>>
    /\ last.updates[1].err = <<"rpc:", "Tx", "timed", "out!", "(dropped)">>
    /\ sender_contexts[last.sender].pending_messages[last.sequences[1]].state = "Timeout"

Max(S) == CHOOSE x \in S : \A y \in S : y <= x

\* the sequences of the sender context sc that are pending-or-success at h
PendingOrSuccessSet(sc, h) ==
    {q \in DOMAIN sc.pending_messages : PendingOrSuccessAt(sc.pending_messages[q], h)}

\* the sender context sc holds contexts for node_next_sequence and the two sequences
\* after it: its messages s, s+1, s+2 have been processed
ProcessedThree(sc) ==
    \A k \in sc.node_next_sequence..(sc.node_next_sequence + 2) :
        k \in DOMAIN sc.pending_messages

\* C6 as stated: once the messages s, s+1, s+2 of a sender with
\* node_next_sequence = s have been processed, calculate_next_sequence(h) is
\* the highest sequence that is pending-or-success at h, plus 1.
C6_HighestPendingOrSuccessPlusOne ==
    \A s \in DOMAIN sender_contexts :
        LET sc == sender_contexts[s] IN
        ProcessedThree(sc) =>
            \A h \in Heights :
                PendingOrSuccessSet(sc, h) # {} =>
                    calculate_next_sequence(sc, h) = Max(PendingOrSuccessSet(sc, h)) + 1

\* C6, amended: calculate_next_sequence(h) is the end of the run of
\* pending-or-success contexts that starts at node_next_sequence; it is the
\* highest pending-or-success sequence plus 1 when every sequence from
\* node_next_sequence up to that one is pending-or-success at h; and with
\* s, s+1, s+2 all Successful and no context for s+3 it is s+3 at every height.
C6_NextSequenceProgression ==
    \A s \in DOMAIN sender_contexts :
        LET sc == sender_contexts[s]
            b  == sc.node_next_sequence
        IN  \A h \in Heights :
                /\ FirstNotPendingOrSuccess(sc, calculate_next_sequence(sc, h), h)
                /\ (/\ ProcessedThree(sc)
                    /\ PendingOrSuccessSet(sc, h) # {}
                    /\ \A k \in b..Max(PendingOrSuccessSet(sc, h)) :
                          k \in PendingOrSuccessSet(sc, h)) =>
                      calculate_next_sequence(sc, h) = Max(PendingOrSuccessSet(sc, h)) + 1
                /\ (/\ \A k \in b..(b + 2) :
                          /\ k \in DOMAIN sc.pending_messages
                          /\ sc.pending_messages[k].state = "Successful"
                    /\ b + 3 \notin DOMAIN sc.pending_messages) =>
                      calculate_next_sequence(sc, h) = b + 3

\* the messages 0, 1, 2 of a sender have all completed Ok, the last one just now
C6_Witness ==
    /\ last.ev = "Completed"
    /\ last.sender \in DOMAIN sender_contexts
    /\ sender_contexts[last.sender].node_next_sequence = 0
    /\ \A k \in 0..2 :
          /\ k \in DOMAIN sender_contexts[last.sender].pending_messages
          /\ sender_contexts[last.sender].pending_messages[k].state = "Successful"
    /\ calculate_next_sequence(sender_contexts[last.sender], current_height) = 3

\* C7: the whole batch of an unknown sender passes admission; a DoSyncMessages
\* for an unknown sender that carries next_sequence = v and the messages v, v+1
\* creates the sender context with node_next_sequence = v and submits v and then
\* v+1 in the same batch, v+1 after v has been recorded as Pending; and no batch
\* submits a sequence above node_next_sequence whose predecessor is not
\* pending-or-success (the specification's 5 and 6 are v and v+1).
C7_BootstrapUnknownSender ==
    /\ [][last'.ev = "SyncMessages" =>
            \A w \in Workers, s \in {last'.sender}, m \in {last'.messages} :
                (SyncMessages(w, s, m) /\ s \notin DOMAIN sender_contexts /\ m # <<>>) =>
                    refresh_tasks' = refresh_tasks (+) SetToBag({RefreshTask(w, s, m)})]_vars
    /\ [][last'.ev = "DoSyncMessages" =>
            \A t \in BagToSet(refresh_tasks), n \in {last'.next_sequence} :
                Synced(t, n) =>
                    /\ \A v \in Seqs :
                          (/\ t.sender \notin DOMAIN sender_contexts
                           /\ n = Some(v)
                           /\ t.messages = <<v, v + 1>>) =>
                              /\ sender_contexts'[t.sender].node_next_sequence = v
                              /\ last'.sequences = <<v, v + 1>>
                              /\ submit_tasks' = submit_tasks
                                    (+) SetToBag({[worker |-> t.worker, sender |-> t.sender,
                                                   sequence |-> v]})
                                    (+) SetToBag({[worker |-> t.worker, sender |-> t.sender,
                                                   sequence |-> v + 1]})
                              /\ StepsOf(t, n)[2].before.pending_messages[v].state = "Pending"
                    /\ \A i \in 1..Len(StepsOf(t, n)) :
                          LET st == StepsOf(t, n)[i]
                              q  == st.sequence
                              pm == st.before.pending_messages
                          IN  (/\ q > st.before.node_next_sequence
                               /\ ~(q - 1 \in DOMAIN pm
                                     /\ PendingOrSuccessAt(pm[q - 1], current_height))) =>
                                  /\ ~Dispatched(st)
                                  /\ q \notin Range(last'.sequences)]_vars

\* an unknown sender whose node_next_sequence is 1 has just had 1 and 2 submitted
C7_Witness ==
    /\ last.ev = "DoSyncMessages"
    /\ last.branch = "new_sender"
    /\ last.next_sequence = Some(1)
    /\ last.messages = <<1, 2>>
    /\ last.sequences = <<1, 2>>
    /\ sender_contexts[last.sender].node_next_sequence = 1
    /\ DOMAIN sender_contexts[last.sender].pending_messages = {1, 2}

\* the pending messages of a sender before the handler of DoSyncMessages runs
PendingBefore(sender) ==
    IF sender \in DOMAIN sender_contexts
    THEN sender_contexts[sender].pending_messages
    ELSE EmptyMap

\* C8: a message whose sequence is not calculate_next_sequence(current_height)
\* when its turn comes is not submitted and no context is created or changed for
\* it; the handler goes on to the remaining messages of the batch.
C8_SequenceSkip ==
    [][last'.ev = "DoSyncMessages" =>
          \A t \in BagToSet(refresh_tasks), n \in {last'.next_sequence} :
              Synced(t, n) =>
                  LET steps == StepsOf(t, n)
                      final == sender_contexts'[t.sender].pending_messages
                  IN  /\ Len(steps) = Len(t.messages)
                      /\ \A i \in 1..Len(steps) :
                            LET st == steps[i]
                                q  == st.sequence
                            IN  /\ q = t.messages[i]
                                /\ q # calculate_next_sequence(st.before, current_height) =>
                                      /\ ~Dispatched(st)
                                      /\ ContextAfter(steps, i, t.sender) = st.before
                                      /\ q \notin Range(last'.sequences)
                                      /\ ~BagIn([worker |-> t.worker, sender |-> t.sender,
                                                 sequence |-> q],
                                                submit_tasks' (-) submit_tasks)
                                      /\ q \in DOMAIN final <=> q \in DOMAIN PendingBefore(t.sender)
                                      /\ q \in DOMAIN final => final[q] = PendingBefore(t.sender)[q]
                                /\ q = calculate_next_sequence(st.before, current_height) =>
                                      Dispatched(st)]_vars

\* a batch whose first message was ignored and whose second was submitted
C8_Witness ==
    /\ last.ev = "DoSyncMessages"
    /\ Len(last.steps) = 2
    /\ last.steps[1].branch = "ignored"
    /\ last.steps[2].branch \in {"new", "retry"}
    /\ last.sequences = <<last.steps[2].sequence>>

\* C9: a Completed event whose sender has no SenderContext, or whose sequence
\* has no MessageContext of that sender, changes and creates no context and
\* sends no worker update.
C9_StaleCompletionDropped ==
    [][last'.ev = "Completed" =>
          \A t \in BagToSet(submit_tasks), r \in Results :
              (/\ Completed(t, r)
               /\ \/ t.sender \notin DOMAIN sender_contexts
                  \/ t.sequence \notin DOMAIN sender_contexts[t.sender].pending_messages) =>
                  /\ sender_contexts' = sender_contexts
                  /\ last'.updates = <<>>
                  /\ refresh_tasks' = refresh_tasks
                  /\ submit_tasks' = submit_tasks (-) SetToBag({t})
                  /\ current_height' = current_height]_vars

\* a completion for a sender that is known again, but not with that sequence
C9_Witness ==
    /\ last.ev = "Completed"
    /\ last.branch = "sequence_not_found"
    /\ last.sender \in DOMAIN sender_contexts
    /\ last.sequences[1] \notin DOMAIN sender_contexts[last.sender].pending_messages

\* C10: a DoSyncMessages for a sender without SenderContext that carries no
\* next_sequence creates no SenderContext and no MessageContext and submits
\* nothing; for a known sender, no next_sequence leaves node_next_sequence as
\* it was and next_sequence = v sets it to v.
C10_NewSenderWithoutSequence ==
    [][last'.ev = "DoSyncMessages" =>
          \A t \in BagToSet(refresh_tasks), n \in {last'.next_sequence} :
              DoSyncMessages(t, n) =>
                  /\ (t.sender \notin DOMAIN sender_contexts /\ n = None) =>
                        /\ sender_contexts' = sender_contexts
                        /\ submit_tasks' = submit_tasks
                        /\ last'.sequences = <<>>
                  /\ (t.sender \in DOMAIN sender_contexts /\ n = None) =>
                        sender_contexts'[t.sender].node_next_sequence =
                            sender_contexts[t.sender].node_next_sequence
                  /\ \A v \in Seqs :
                        (t.sender \in DOMAIN sender_contexts /\ n = Some(v)) =>
                            sender_contexts'[t.sender].node_next_sequence = v]_vars

\* a batch of an unknown sender has been abandoned while another sender is known
C10_Witness ==
    /\ last.ev = "DoSyncMessages"
    /\ last.branch = "abandoned"
    /\ last.next_sequence = None
    /\ last.messages # <<>>
    /\ last.sender \notin DOMAIN sender_contexts
    /\ DOMAIN sender_contexts # {}

\* C11: RemoveSender(S) leaves no SenderContext (and so no MessageContext) for
\* S and leaves every other sender's context as it was; a Completed for a
\* sender without SenderContext changes no context, creates none and reports
\* nothing to the worker; a SyncMessages for a sender without SenderContext
\* passes every message of the batch on, unfiltered.
C11_SenderRemoval ==
    [][/\ last'.ev = "RemoveSender" =>
             /\ last'.sender \notin DOMAIN sender_contexts'
             /\ DOMAIN sender_contexts' = DOMAIN sender_contexts \ {last'.sender}
             /\ \A o \in DOMAIN sender_contexts' :
                   sender_contexts'[o] = sender_contexts[o]
       /\ (last'.ev = "Completed" /\ last'.sender \notin DOMAIN sender_contexts) =>
             /\ sender_contexts' = sender_contexts
             /\ last'.branch = "sender_not_found"
             /\ last'.updates = <<>>
             /\ refresh_tasks' = refresh_tasks
       /\ (last'.ev = "SyncMessages" /\ last'.sender \notin DOMAIN sender_contexts) =>
             /\ last'.sequences = last'.messages
             /\ last'.messages # <<>> =>
                   \E w \in Workers :
                       BagIn(RefreshTask(w, last'.sender, last'.messages),
                             refresh_tasks')]_vars

\* sender S was known with sequence 0 submitted and pending, was removed, then
\* offered sequence 0 again, which was accepted, and then the completion of
\* the first submission arrived and was dropped
C11_Witness ==
    /\ last.ev = "Completed"
    /\ last.branch = "sender_not_found"
    /\ last.sequences = <<0>>
    /\ last.sender \notin DOMAIN sender_contexts
    /\ current_height = 0
    /\ \E t \in BagToSet(refresh_tasks) : t.sender = last.sender /\ t.messages = <<0>>

\* C12: for every sender, the sequences with a MessageContext that are at or
\* above node_next_sequence are exactly node_next_sequence, node_next_sequence
\* + 1, ... without a gap.
C12_KnownSequencesContiguous ==
    \A s \in DOMAIN sender_contexts :
        LET sc == sender_contexts[s]
            known == {n \in DOMAIN sc.pending_messages : n >= sc.node_next_sequence}
        IN  known = sc.node_next_sequence ..
                        (sc.node_next_sequence + Cardinality(known) - 1)

\* ------------------------------------------------------------ ReplayFactory
\* state roots; a ChainStorage is known by its root
Roots == 0..1

\* the root of the storage with the changes of a block applied
calc_root_if_changes(storage, storage_changes) ==
    (storage + storage_changes.delta) % Cardinality(Roots)

\* an inbound message: who sent it, the topic it goes to, what its payload
\* decodes to as a GatekeeperLaunch, and the number of economic events
\* ComputingEconomics reports while processing it
AllMessages ==
    [sender : {"pallet", "worker"},
     destination : {"GatekeeperLaunch", "other"},
     payload : {"MasterPubkeyOnChain", "FirstGatekeeper", "undecodable"},
     events : 0..1]

\* the messages of a replayed chain: the launch message of the pallet and the
\* messages of workers
Messages ==
    {m \in AllMessages :
        \/ m.sender = "pallet" /\ m.destination = "GatekeeperLaunch"
              /\ m.payload = "MasterPubkeyOnChain"
        \/ m.sender = "worker" /\ m.destination = "other" /\ m.payload = "undecodable"}

MessageListsOf(messages) ==
    UNION {[1..n -> messages] : n \in 0..MaxMessages}

MessageLists == MessageListsOf(Messages)

\* mutant: the sender is not looked at
is_gk_launch_any_sender(msg) ==
    IF msg.destination # "GatekeeperLaunch" THEN FALSE
    ELSE msg.payload = "MasterPubkeyOnChain"

is_gk_launch(msg) ==
    IF msg.sender # "pallet" THEN FALSE
    ELSE IF msg.destination # "GatekeeperLaunch" THEN FALSE
    ELSE msg.payload = "MasterPubkeyOnChain"

\* the storage changes of a block: what they do to the root, whether
\* mq_messages can read the messages from the storage once they are applied,
\* the messages it reads, and the number of events did_process_block reports
StorageChanges ==
    {c \in [delta : Roots, mq_readable : BOOLEAN, mq_messages : MessageLists,
            did_events : 0..1] :
        ~c.mq_readable => c.mq_messages = <<>> /\ c.did_events = 0}

ReplayFactory_new ==
    [next_event_seq |-> 1, current_block |-> 0, storage |-> 0, gk_launched |-> FALSE]

EventRecord(sequence, block) == [sequence |-> sequence, block_number |-> block]

\* event_handler, called `events` times in a row
RECURSIVE event_handler(_, _, _)
event_handler(run, block, events) ==
    IF events = 0 THEN run
    ELSE event_handler(
             [run EXCEPT !.records = Append(@, EventRecord(run.next_seq, block)),
                         !.next_seq = @ + 1,
                         !.calls = @ + 1],
             block, events - 1)

\* what was done with a message: skipped, or dispatched to the receive queue
\* and processed
Handled(message, outcome) ==
    [sender |-> message.sender, destination |-> message.destination,
     payload |-> message.payload, outcome |-> outcome]

\* `for message in messages`: run holds gk_launched, next_event_seq, the
\* records made, and what was done with each message
RECURSIVE for_message(_, _, _)
for_message(run, block, messages) ==
    IF messages = <<>> THEN run
    ELSE LET message == Head(messages)
         IN  IF ~run.gk_launched /\ ~is_gk_launch(message)
             THEN for_message([run EXCEPT !.handled =
                                              Append(@, Handled(message, "skipped"))],
                              block, Tail(messages))
             ELSE for_message(
                      event_handler([run EXCEPT !.gk_launched = TRUE,
                                                !.handled =
                                                    Append(@, Handled(message, "dispatched"))],
                                    block, message.events),
                      block, Tail(messages))

\* handle_inbound_messages on a factory whose storage has the block applied
handle_inbound_messages(f, number, storage_changes) ==
    IF ~storage_changes.mq_readable
    THEN [factory |-> f, result |-> "Can not get mq messages from storage",
          records |-> <<>>, handled |-> <<>>, did_process_block |-> FALSE]
    ELSE LET looped == for_message([gk_launched |-> f.gk_launched,
                                    next_seq |-> f.next_event_seq,
                                    records |-> <<>>, handled |-> <<>>, calls |-> 0],
                                   number, storage_changes.mq_messages)
             run == IF looped.gk_launched
                    THEN event_handler(looped, number, storage_changes.did_events)
                    ELSE looped
         IN  [factory |-> [f EXCEPT !.gk_launched = run.gk_launched,
                                    !.next_event_seq = run.next_seq],
              result |-> "Ok",
              records |-> run.records,
              handled |-> run.handled,
              did_process_block |-> looped.gk_launched]

\* mutant: the changes are applied before the roots are compared
dispatch_block_apply_first(f, block) ==
    LET state_root == calc_root_if_changes(f.storage, block.storage_changes)
    IN  IF block.block_header.state_root # state_root
        THEN [factory |-> [f EXCEPT !.storage = state_root],
              result |-> "State root mismatch",
              records |-> <<>>, handled |-> <<>>, did_process_block |-> FALSE]
        ELSE LET r == handle_inbound_messages([f EXCEPT !.storage = state_root],
                                              block.block_header.number,
                                              block.storage_changes)
             IN  IF r.result # "Ok" THEN r
                 ELSE [r EXCEPT !.factory.current_block = block.block_header.number]

\* mutant: every record of a block carries the sequence the block started with
dispatch_block_same_sequence(f, block) ==
    LET state_root == calc_root_if_changes(f.storage, block.storage_changes)
    IN  IF block.block_header.state_root # state_root
        THEN [factory |-> f, result |-> "State root mismatch",
              records |-> <<>>, handled |-> <<>>, did_process_block |-> FALSE]
        ELSE LET r == handle_inbound_messages([f EXCEPT !.storage = state_root],
                                              block.block_header.number,
                                              block.storage_changes)
             IN  IF r.result # "Ok" THEN r
                 ELSE [r EXCEPT !.factory.current_block = block.block_header.number,
                                !.records = [i \in 1..Len(r.records) |->
                                                [r.records[i] EXCEPT
                                                    !.sequence = f.next_event_seq]]]

\* ReplayFactory::dispatch_block: the factory it leaves, its result, the records
\* it made, and what it did with the inbound messages
dispatch_block(f, block) ==
    LET state_root == calc_root_if_changes(f.storage, block.storage_changes)
    IN  IF block.block_header.state_root # state_root
        THEN [factory |-> f, result |-> "State root mismatch",
              records |-> <<>>, handled |-> <<>>, did_process_block |-> FALSE]
        ELSE LET r == handle_inbound_messages([f EXCEPT !.storage = state_root],
                                              block.block_header.number,
                                              block.storage_changes)
             IN  IF r.result # "Ok" THEN r
                 ELSE [r EXCEPT !.factory.current_block = block.block_header.number]

\* ------------------------------------------------------------------- replay
RestartRequiredText == <<"restart", "required">>

\* what an RPC error reads when displayed
RpcErrors == {<<"connection", "closed">>, <<"node:", "restart", "required">>}

restart_required(error) == contains(error, RestartRequiredText)

\* how a failed step is logged
failure(error) == IF restart_required(error) THEN "restart required" ELSE "error"

\* the states a checkpoint file holds
Checkpoints ==
    {[next_event_seq |-> 1, current_block |-> 1, storage |-> 0, gk_launched |-> FALSE],
     [next_event_seq |-> 4, current_block |-> 100, storage |-> 1, gk_launched |-> TRUE]}

\* --checkpoint-interval (u32)
Intervals == {to_le_bytes(0, 4), to_le_bytes(1, 4), to_le_bytes(3, 4), u32_MAX}

\* Args, with what get_checkpoint_path finds (restore) and whether
\* persist_events_to names a database (persist_events)
ArgsSet ==
    [start_at : {0, 2},
     stop_at : {None, Some(3)},
     assume_finalized : {0, 200},
     checkpoint_interval : Intervals,
     persist_events : BOOLEAN,
     restore : {None} \cup {Some(c) : c \in Checkpoints}]

\* mutant: the later of the two blocks
first_block_max(start_at, checkpoint_block) ==
    IF start_at + 1 >= checkpoint_block + 1 THEN start_at + 1 ELSE checkpoint_block + 1

\* the initial block_number
first_block(start_at, checkpoint_block) ==
    IF checkpoint_block = 0 THEN start_at + 1 ELSE checkpoint_block + 1

restored_factory(a) == IF a.restore = None THEN ReplayFactory_new ELSE a.restore[1]

\* the last block the node will ever hold in a run
chain_tip == first_block(args.start_at, restored_factory(args).current_block) + MaxRun - 1

NoStep ==
    [step |-> "none", result |-> "", block |-> 0, waited |-> FALSE, records |-> <<>>,
     handled |-> <<>>, did_process_block |-> FALSE, checkpoint |-> "no",
     header_root |-> None, computed_root |-> None]

\* replay() up to its loop
InitReplay ==
    /\ args \in ArgsSet
    /\ factory = restored_factory(args)
    /\ last_checkpoint_block = factory.current_block
    /\ block_number = first_block(args.start_at, last_checkpoint_block)
    /\ pc = "loop"
    /\ event_tx = <<>>
    /\ files = [written |-> {},
                latest |-> IF args.restore = None THEN None
                           ELSE Some(args.restore[1].current_block)]
    /\ done = NoStep
    /\ NoDispatcher
    /\ NoKeeper

stop_reached == args.stop_at # None /\ block_number >= args.stop_at[1]

\* `Replay finished`: wait_forever
replay_finished ==
    /\ pc = "loop"
    /\ stop_reached
    /\ pc' = "finished"
    /\ done' = [NoStep EXCEPT !.step = "wait_forever", !.block = block_number]
    /\ UNCHANGED <<args, factory, block_number, last_checkpoint_block, event_tx, files>>
    /\ UNCHANGED <<dispatcher_vars, keeper_vars>>

Max2(a, b) == IF a >= b THEN a ELSE b

\* one poll of wait_for_block: finalized_number's answer (None when it fails)
\* and system_sync_state's
wait_for_block(finalized, state) ==
    LET step == [NoStep EXCEPT !.step = "wait_for_block", !.block = block_number]
        fin == IF finalized = None THEN 0 ELSE finalized[1]
    IN
    /\ pc = "loop"
    /\ ~stop_reached
    /\ IF ~state.ok
       THEN /\ pc' = IF restart_required(state.err) THEN "reconnect" ELSE "fetch"
            /\ done' = [step EXCEPT !.result = failure(state.err)]
       ELSE IF block_number <= state.current_block
               /\ block_number <= Max2(fin, args.assume_finalized)
       THEN /\ pc' = "fetch"
            /\ done' = [step EXCEPT !.result = "Ok", !.waited = TRUE]
       ELSE /\ pc' = "loop"
            /\ done' = [step EXCEPT !.result = "waiting"]
    /\ UNCHANGED <<args, factory, block_number, last_checkpoint_block, event_tx, files>>
    /\ UNCHANGED <<dispatcher_vars, keeper_vars>>

\* mutant: a block that cannot be fetched is given up
fetch_storage_changes_failed_skip(err) ==
    /\ pc = "fetch"
    /\ pc' = IF restart_required(err) THEN "reconnect" ELSE "loop"
    /\ block_number' = block_number + 1
    /\ done' = [NoStep EXCEPT !.step = "fetch_storage_changes", !.block = block_number,
                              !.result = failure(err), !.waited = done.waited]
    /\ UNCHANGED <<args, factory, last_checkpoint_block, event_tx, files>>
    /\ UNCHANGED <<dispatcher_vars, keeper_vars>>

\* fetch_storage_changes fails
fetch_storage_changes_failed(err) ==
    /\ pc = "fetch"
    /\ pc' = IF restart_required(err) THEN "reconnect" ELSE "loop"
    /\ done' = [NoStep EXCEPT !.step = "fetch_storage_changes", !.block = block_number,
                              !.result = failure(err), !.waited = done.waited]
    /\ UNCHANGED <<args, factory, block_number, last_checkpoint_block, event_tx, files>>
    /\ UNCHANGED <<dispatcher_vars, keeper_vars>>

\* fetch_storage_changes succeeds and get_header_at fails
get_header_at_failed(err) ==
    /\ pc = "fetch"
    /\ block_number <= chain_tip
    /\ pc' = "returned"
    /\ done' = [NoStep EXCEPT !.step = "get_header_at", !.block = block_number,
                              !.result = failure(err), !.waited = done.waited]
    /\ UNCHANGED <<args, factory, block_number, last_checkpoint_block, event_tx, files>>
    /\ UNCHANGED <<dispatcher_vars, keeper_vars>>

\* the blocks the node may hold at a number
Blocks(number) ==
    [block_header : [number : {number}, state_root : Roots],
     storage_changes : StorageChanges]

\* `args.checkpoint_interval > 0 && block_number >= args.checkpoint_interval +
\* last_checkpoint_block`, in u32, in a build with or without overflow checks
take_checkpoint(interval, number, last_checkpoint, overflow_checks) ==
    IF interval = Zero(4) THEN "no"
    ELSE IF add_overflows(interval, to_le_bytes(last_checkpoint, 4)) /\ overflow_checks THEN "panic"
    ELSE IF ~less(to_le_bytes(number, 4), wrapping_add(interval, to_le_bytes(last_checkpoint, 4)))
         THEN "yes" ELSE "no"

\* the first event sequence of the run
first_event_seq == restored_factory(args).next_event_seq

\* both fetches succeed: dispatch_block, the checkpoint, the increment
replay_block(block, overflow_checks) ==
    LET r == dispatch_block(factory, block)
        checkpoint == take_checkpoint(args.checkpoint_interval, block_number,
                                      last_checkpoint_block, overflow_checks)
        step == [NoStep EXCEPT !.step = "dispatch_block", !.block = block_number,
                               !.result = r.result, !.waited = done.waited,
                               !.records = r.records, !.handled = r.handled,
                               !.did_process_block = r.did_process_block,
                               !.header_root = Some(block.block_header.state_root),
                               !.computed_root =
                                   Some(calc_root_if_changes(factory.storage,
                                                             block.storage_changes))]
    IN
    /\ pc = "fetch"
    /\ block_number <= chain_tip
    /\ r.factory.next_event_seq - first_event_seq <= MaxEvents
    /\ factory' = r.factory
    /\ IF r.result # "Ok"
       THEN /\ pc' = "panicked"
            /\ done' = step
            /\ UNCHANGED <<block_number, last_checkpoint_block, event_tx, files>>
       ELSE /\ event_tx' = IF args.persist_events THEN event_tx \o r.records ELSE event_tx
            /\ done' = [step EXCEPT !.checkpoint = checkpoint]
            /\ IF checkpoint = "panic"
               THEN /\ pc' = "panicked"
                    /\ UNCHANGED <<block_number, last_checkpoint_block, files>>
               ELSE /\ pc' = "loop"
                    /\ block_number' = block_number + 1
                    /\ IF checkpoint = "yes"
                       THEN /\ files' = [written |-> files.written \cup {block_number},
                                         latest |-> Some(block_number)]
                            /\ last_checkpoint_block' = block_number
                       ELSE UNCHANGED <<files, last_checkpoint_block>>
    /\ UNCHANGED args
    /\ UNCHANGED <<dispatcher_vars, keeper_vars>>

\* one attempt of `Reconnecting to substrate`
reconnect(connected) ==
    /\ pc = "reconnect"
    /\ pc' = IF connected THEN "loop" ELSE "reconnect"
    /\ done' = [NoStep EXCEPT !.step = "subxt_connect",
                              !.result = IF connected THEN "Ok" ELSE "error"]
    /\ UNCHANGED <<args, factory, block_number, last_checkpoint_block, event_tx, files>>
    /\ UNCHANGED <<dispatcher_vars, keeper_vars>>

\* what the node answers while the driver stands at block_number
ChainViews == {h \in {block_number - 1, block_number} : h >= 0 /\ h <= chain_tip}

SyncStates ==
    {[ok |-> TRUE, current_block |-> h, err |-> <<>>] : h \in ChainViews}
    \cup {[ok |-> FALSE, current_block |-> 0, err |-> e] : e \in RpcErrors}

NextReplay ==
    \/ replay_finished
    \/ \E finalized \in {None} \cup {Some(h) : h \in ChainViews}, state \in SyncStates :
           wait_for_block(finalized, state)
    \/ \E e \in RpcErrors : fetch_storage_changes_failed(e)
    \/ \E e \in RpcErrors : get_header_at_failed(e)
    \/ \E block \in Blocks(block_number), overflow_checks \in BOOLEAN :
           replay_block(block, overflow_checks)
    \/ \E connected \in BOOLEAN : reconnect(connected)

SpecReplay == InitReplay /\ [][NextReplay]_vars

\* ------------------------------------- replay of blocks with any inbound messages
\* A run over a node that answers every call, whose blocks carry messages of
\* every kind is_gk_launch tells apart.
LaunchBlocks(number) ==
    [block_header : [number : {number}, state_root : Roots],
     storage_changes : [delta : Roots, mq_readable : {TRUE},
                        mq_messages : MessageListsOf(AllMessages),
                        did_events : 0..1]]

InitLaunch ==
    /\ InitReplay
    /\ args.start_at = 0
    /\ args.stop_at = None
    /\ args.assume_finalized = 200
    /\ args.checkpoint_interval = Zero(4)
    /\ args.persist_events

NextLaunch ==
    \/ \E state \in {s \in SyncStates : s.ok} : wait_for_block(None, state)
    \/ \E block \in LaunchBlocks(block_number) : replay_block(block, FALSE)

SpecLaunch == InitLaunch /\ [][NextLaunch]_vars

\* -------------------------------------------------------------- quota claims
\* exact arithmetic on naturals below 256^16, which none of the values below reach
Wide(a) == as_bytes(a, 16)

RECURSIVE SumWide(_)
SumWide(values) ==
    IF values = <<>> THEN Zero(16)
    ELSE wrapping_add(Wide(Head(values)), SumWide(Tail(values)))

LessEq(a, b) == ~less(Wide(b), Wide(a))

Quotas == [i \in 1..Len(local_cache[1]) |-> local_cache[1][i].quota]

WeightsInKeyOrder(map) == [i \in 1..Cardinality(DOMAIN map) |-> map[ordered(DOMAIN map)[i]]]

\* q = floor(TOTAL_MEMORY * weight / W): q * W <= TOTAL_MEMORY * weight < (q + 1) * W
IsFloorShare(q, weight, W) ==
    LET product == wrapping_mul(Wide(TOTAL_MEMORY), Wide(weight))
    IN  /\ LessEq(wrapping_mul(Wide(q), W), product)
        /\ less(product, wrapping_mul(wrapping_add(Wide(q), to_le_bytes(1, 16)), W))

\* the cache has just been given the quotas of the contracts
Applied == contracts' = contracts /\ local_cache' # local_cache

\* C19: the quotas handed to the local cache never sum to more than
\* TOTAL_MEMORY, whatever the contracts and their weights.
C19_QuotaBudget ==
    local_cache # None =>
        /\ \A i \in 1..Len(Quotas) : Quotas[i] # DivideByZero
        /\ LessEq(SumWide(Quotas), TOTAL_MEMORY)

\* three contracts share the budget and the division leaves a residue
C19_Witness ==
    /\ local_cache # None
    /\ Len(Quotas) = 3
    /\ \A i \in 1..3 : Quotas[i] # Zero(Len(Quotas[i]))
    /\ less(SumWide(Quotas), Wide(TOTAL_MEMORY))

IsPermutation(a, b) ==
    /\ Len(a) = Len(b)
    /\ \E f \in [1..Len(a) -> 1..Len(a)] :
          /\ \A i, j \in 1..Len(a) : i # j => f[i] # f[j]
          /\ \A i \in 1..Len(a) : a[i] = b[f[i]]

\* contracts with the weights listed, in some order of the keys, are given the
\* quotas listed, by weight
Example(given, weights, expected) ==
    IsPermutation(WeightsInKeyOrder(contracts), weights) =>
        \A i \in 1..Len(given) :
            \E j \in 1..Len(weights) :
                /\ contracts[given[i].id] = weights[j]
                /\ as_bytes(given[i].quota, 8) = to_le_bytes(expected[j], 8)

\* C20: applying the quotas hands over one (key, quota) pair per contract, in
\* ascending key order, each quota being the exact floor of TOTAL_MEMORY *
\* weight / max(1, sum of the weights), for all u32 weights; weights (0, 1)
\* give 0 and TOTAL_MEMORY, (0, u32::MAX, u32::MAX) give 0 and twice half of
\* TOTAL_MEMORY, (0, 1, u32::MAX) give 0, 0 and TOTAL_MEMORY - 1.
C20_QuotaFormula ==
    [][Applied =>
          LET given == local_cache'[1]
              keys == [i \in 1..Len(given) |-> given[i].id]
              sum == SumWide(WeightsInKeyOrder(contracts))
              W == IF sum = Zero(16) THEN to_le_bytes(1, 16) ELSE sum
          IN  /\ Len(given) = Cardinality(DOMAIN contracts)
              /\ {keys[i] : i \in 1..Len(keys)} = DOMAIN contracts
              /\ \A i, j \in 1..Len(keys) : i < j => key_less(keys[i], keys[j])
              /\ \A i \in 1..Len(given) :
                    /\ given[i].quota # DivideByZero
                    /\ IsFloorShare(given[i].quota, contracts[keys[i]], W)
              /\ Example(given, <<to_le_bytes(0, 4), to_le_bytes(1, 4)>>,
                         <<0, 1024 * 1024 * 20>>)
              /\ Example(given, <<to_le_bytes(0, 4), u32_MAX, u32_MAX>>,
                         <<0, (1024 * 1024 * 20) \div 2, (1024 * 1024 * 20) \div 2>>)
              /\ Example(given, <<to_le_bytes(0, 4), to_le_bytes(1, 4), u32_MAX>>,
                         <<0, 0, 1024 * 1024 * 20 - 1>>)
         ]_vars

\* the cache holds the quotas of contracts weighing 0, 1 and u32::MAX
C20_Witness ==
    /\ local_cache # None
    /\ IsPermutation(WeightsInKeyOrder(contracts), <<to_le_bytes(0, 4), to_le_bytes(1, 4), u32_MAX>>)
    /\ Len(Quotas) = 3
    /\ \A i \in 1..3 :
          /\ Quotas[i] # DivideByZero
          /\ Quotas[i] # Zero(Len(Quotas[i])) <=> contracts[local_cache[1][i].id] = u32_MAX
    /\ SumWide(Quotas) = Wide(to_le_bytes(1024 * 1024 * 20 - 1, 8))

\* every contract weighs nothing (so does the empty set of contracts)
AllZero(map) == \A a \in DOMAIN map : map[a] = Zero(4)

\* C21: for no contracts and for contracts that all weigh 0, calc_cache_quotas
\* divides by no zero and gives one pair per contract, in ascending key order,
\* each with quota 0; keys 0x01 and 0x02 of weight 0 give (0x01, 0), (0x02, 0).
C21_ZeroWeights ==
    [][(Applied /\ AllZero(contracts)) =>
          LET given == local_cache'[1] IN
          /\ Len(given) = Cardinality(DOMAIN contracts)
          /\ {given[i].id : i \in 1..Len(given)} = DOMAIN contracts
          /\ \A i, j \in 1..Len(given) : i < j => key_less(given[i].id, given[j].id)
          /\ \A i \in 1..Len(given) :
                /\ given[i].quota # DivideByZero
                /\ given[i].quota = Zero(Len(given[i].quota))
          /\ DOMAIN contracts = {<<1>>, <<2>>} =>
                /\ given[1].id = <<1>>
                /\ given[2].id = <<2>>]_vars

\* the cache holds the quotas of the contracts 0x01 and 0x02, both of weight 0
C21_Witness ==
    /\ DOMAIN contracts = {<<1>>, <<2>>}
    /\ AllZero(contracts)
    /\ local_cache =
          Some(<<[id |-> <<1>>, quota |-> Zero(8)], [id |-> <<2>>, quota |-> Zero(8)]>>)

\* the factors the weights are scaled by
Scales == {to_le_bytes(2, 4), to_le_bytes(1431655765, 4), u32_MAX}

\* every weight times k is a u32
Fits(map, k) ==
    \A a \in DOMAIN map : LessEq(wrapping_mul(Wide(map[a]), Wide(k)), u32_MAX)

\* the contracts with every weight multiplied by k
Scaled(map, k) ==
    [a \in DOMAIN map |-> as_bytes(wrapping_mul(Wide(map[a]), Wide(k)), 4)]

\* usize of the build that made the quotas
WidthOf(given) == IF given = <<>> THEN 8 ELSE Len(given[1].quota)

\* C22: for every factor k >= 1 that keeps every weight within u32, the
\* contracts with every weight multiplied by k are given the same quotas.
C22_ScaleInvariance ==
    [][Applied =>
          \A k \in Scales :
              Fits(contracts, k) =>
                  calc_cache_quotas(Scaled(contracts, k), WidthOf(local_cache'[1]))
                      = local_cache'[1]]_vars

\* three contracts of weight 1 share the budget with a residue, and so do they
\* with weight u32::MAX each
C22_Witness ==
    /\ local_cache # None
    /\ Cardinality(DOMAIN contracts) = 3
    /\ \A a \in DOMAIN contracts : contracts[a] = to_le_bytes(1, 4)
    /\ Fits(contracts, u32_MAX)
    /\ \A a \in DOMAIN contracts : Scaled(contracts, u32_MAX)[a] = u32_MAX
    /\ calc_cache_quotas(Scaled(contracts, u32_MAX), WidthOf(local_cache[1])) = local_cache[1]
    /\ less(SumWide(Quotas), Wide(TOTAL_MEMORY))

\* ------------------------------------------------------------- replay claims
CheckpointBlock == IF args.restore = None THEN 0 ELSE args.restore[1].current_block

Dispatching == done'.step = "dispatch_block"

\* C13: when the root computed for a block differs from the root in its
\* header, dispatch_block fails and leaves the factory (current_block, storage,
\* gk_launched, next_event_seq) as it was, handles no inbound message and makes
\* no event record; the driver stops there and replays no later block.
C13_StateRootMismatch ==
    [][/\ pc # "panicked"
       /\ (Dispatching /\ done'.header_root # done'.computed_root) =>
             /\ done'.result = "State root mismatch"
             /\ factory' = factory
             /\ done'.handled = <<>>
             /\ done'.records = <<>>
             /\ ~done'.did_process_block
             /\ event_tx' = event_tx
             /\ block_number' = block_number
             /\ files' = files
             /\ pc' = "panicked"]_vars

\* a block was replayed, and the next one does not match the storage
C13_Witness ==
    /\ done.step = "dispatch_block"
    /\ done.result = "State root mismatch"
    /\ done.header_root # done.computed_root
    /\ factory.current_block = done.block - 1
    /\ factory.current_block # CheckpointBlock
    /\ pc = "panicked"

\* C14: each record made while a block is dispatched carries the value
\* next_event_seq had when it was made, next_event_seq growing by one per
\* record; so the sequences of the records sent are strictly increasing, and
\* next_event_seq never decreases.
C14_EventSequences ==
    [][/\ factory'.next_event_seq >= factory.next_event_seq
       /\ Dispatching =>
             /\ \A i \in 1..Len(done'.records) :
                   done'.records[i].sequence = factory.next_event_seq + i - 1
             /\ factory'.next_event_seq = factory.next_event_seq + Len(done'.records)
       /\ \A i, j \in 1..Len(event_tx') :
             i < j => event_tx'[i].sequence < event_tx'[j].sequence]_vars

\* records of two blocks have been sent
C14_Witness ==
    /\ Len(event_tx) = 2
    /\ event_tx[1].block_number < event_tx[2].block_number
    /\ event_tx[1].sequence < event_tx[2].sequence
    /\ factory.next_event_seq = event_tx[2].sequence + 1

\* u32 values that the checker's integers hold
U32(n) == to_le_bytes(n, 4)

\* C15: after block n has been dispatched, checkpoint.<n> is written, with
\* checkpoint.latest pointing at it and last_checkpoint_block set to n, exactly
\* when checkpoint_interval > 0 and n - last_checkpoint_block >=
\* checkpoint_interval; from a checkpoint at block 100 with interval 3 the
\* first checkpoint written is checkpoint.103.
C15_CheckpointCadence ==
    [][(Dispatching /\ done'.result = "Ok") =>
          LET n == block_number
              due == /\ args.checkpoint_interval # Zero(4)
                     /\ ~less(U32(n - last_checkpoint_block), args.checkpoint_interval)
          IN  /\ due =>
                    /\ files'.written = files.written \cup {n}
                    /\ files'.latest = Some(n)
                    /\ last_checkpoint_block' = n
              /\ ~due =>
                    /\ files' = files
                    /\ last_checkpoint_block' = last_checkpoint_block
              /\ (CheckpointBlock = 100 /\ args.checkpoint_interval = U32(3)
                     /\ files.written = {} /\ files'.written # {}) =>
                    /\ files'.written = {103}
                    /\ files'.latest = Some(103)]_vars

\* C16: a block is dispatched only in an iteration in which wait_for_block
\* returned Ok, that is, saw block_number <= min(current_best, max(finalized,
\* assume_finalized)).
C16_FinalityGate ==
    [][Dispatching => done'.waited]_vars

\* C17: no RPC failure makes replay return an error; after a failed RPC the
\* driver is still in its loop at the same block_number, it goes to reconnect
\* when the error says `restart required`, and it stays there until the
\* connection succeeds.
C17_RpcFailuresStayInside ==
    [][/\ pc' # "returned"
       /\ done'.result \in {"error", "restart required"} =>
             /\ block_number' = block_number
             /\ pc' \in {"loop", "fetch", "reconnect"}
       /\ (done'.result = "restart required" /\ done'.step # "subxt_connect") =>
             pc' = "reconnect"
       /\ (done'.step = "subxt_connect" /\ done'.result = "error") =>
             pc' = "reconnect"]_vars

\* C18 as stated: the first block dispatched is max(start_at + 1,
\* checkpoint_block + 1).
C18_FirstBlockIsMax ==
    [][(Dispatching /\ factory.current_block = CheckpointBlock) =>
          done'.block = Max2(args.start_at + 1, CheckpointBlock + 1)]_vars

\* C18, amended: the first block dispatched is checkpoint_block + 1 when the
\* restored checkpoint's current_block is not 0, and start_at + 1 otherwise.
C18_FirstBlock ==
    [][(Dispatching /\ factory.current_block = CheckpointBlock) =>
          done'.block = IF CheckpointBlock # 0 THEN CheckpointBlock + 1
                        ELSE args.start_at + 1]_vars

\* a run restored from a checkpoint at block 1 with start_at = 2 has
\* dispatched its first block, block 2
C18_Witness ==
    /\ args.start_at = 2
    /\ CheckpointBlock = 1
    /\ done.step = "dispatch_block"
    /\ done.result = "Ok"
    /\ done.block = 2
    /\ factory.current_block = 2

\* a gatekeeper-launch message: sent by a pallet, to the GatekeeperLaunch topic,
\* holding the MasterPubkeyOnChain variant
IsLaunchMessage(h) ==
    /\ h.sender = "pallet"
    /\ h.destination = "GatekeeperLaunch"
    /\ h.payload = "MasterPubkeyOnChain"

\* the gatekeeper was launched when the i-th message of the block had its turn
LaunchedBefore(handled, i) ==
    factory.gk_launched \/ \E j \in 1..(i - 1) : IsLaunchMessage(handled[j])

\* C23: while gk_launched is false a message that is not a gatekeeper-launch
\* message is skipped (not dispatched, not processed), so that no EventRecord
\* is made before the launch; the first launch message sets gk_launched and is
\* dispatched, as is every message after it, in that block and in later ones;
\* did_process_block is called at the end of a block exactly when gk_launched
\* is true then.
C23_LaunchGating ==
    [][/\ factory.gk_launched => factory'.gk_launched
       /\ (Dispatching /\ done'.result = "Ok") =>
             LET handled == done'.handled IN
             /\ \A i \in 1..Len(handled) :
                   handled[i].outcome =
                       IF LaunchedBefore(handled, i) \/ IsLaunchMessage(handled[i])
                       THEN "dispatched" ELSE "skipped"
             /\ factory'.gk_launched =
                   (factory.gk_launched
                       \/ \E i \in 1..Len(handled) : IsLaunchMessage(handled[i]))
             /\ done'.did_process_block = factory'.gk_launched
             /\ ~factory'.gk_launched =>
                   /\ done'.records = <<>>
                   /\ event_tx' = event_tx
                   /\ event_tx = <<>>
                   /\ factory'.next_event_seq = factory.next_event_seq]_vars

\* a block in which a launch-like message of a worker was skipped and the launch
\* message of the pallet after it was dispatched, in a run that had replayed a
\* block before the launch
C23_Witness ==
    /\ done.step = "dispatch_block"
    /\ done.result = "Ok"
    /\ args.restore = None
    /\ done.block = 2
    /\ Len(done.handled) = 2
    /\ done.handled[1] = [sender |-> "worker", destination |-> "GatekeeperLaunch",
                          payload |-> "MasterPubkeyOnChain", outcome |-> "skipped"]
    /\ IsLaunchMessage(done.handled[2])
    /\ done.handled[2].outcome = "dispatched"
    /\ done.did_process_block
    /\ factory.gk_launched
    /\ done.records # <<>>

\* no block has been dispatched in this run yet
NothingReplayed == factory.current_block = CheckpointBlock

\* C26: block_number changes only by a successful dispatch_block of that block,
\* and then by exactly 1, so that a failed fetch is followed by the same block;
\* the block dispatched is block_number, it is the one after the block
\* dispatched before it, it is below stop_at, and after its successful dispatch
\* current_block is its number.
C26_OneBlockAtATime ==
    [][/\ block_number' # block_number =>
             /\ Dispatching
             /\ done'.result = "Ok"
             /\ block_number' = block_number + 1
       /\ Dispatching =>
             /\ done'.block = block_number
             /\ ~NothingReplayed => done'.block = factory.current_block + 1
             /\ args.stop_at # None => done'.block < args.stop_at[1]
             /\ done'.result = "Ok" =>
                   /\ factory'.current_block = done'.block
                   /\ pc' # "panicked" => block_number' = block_number + 1
             /\ done'.result # "Ok" => factory'.current_block = factory.current_block
       /\ ~Dispatching => factory'.current_block = factory.current_block]_vars

\* blocks 1 and 2 have been dispatched and the run has reached stop_at = 3
C26_Witness ==
    /\ args.restore = None
    /\ args.start_at = 0
    /\ args.stop_at = Some(3)
    /\ done.step = "dispatch_block"
    /\ done.result = "Ok"
    /\ done.block = 2
    /\ factory.current_block = 2
    /\ block_number = 3
    /\ pc = "loop"

\* ---------------------------------------------------------- dispatcher claims
\* the MessageContext mc with its state set aside
WithoutState(mc) == [mc EXCEPT !.state = "Pending"]

\* C24: the handler of Completed changes nothing but the state of the
\* MessageContext of its sender and sequence: current_height, every
\* node_next_sequence, submitted_at and prev_try_count and every other context
\* stay as they were, no context appears or disappears, and nothing is
\* submitted; and a Completed handled after a CurrentHeight leaves the sender
\* contexts the same Completed handled before that CurrentHeight leaves.
C24_CompletionFrame ==
    [][/\ last'.ev = "Completed" =>
             LET s == last'.sender
                 n == last'.sequences[1]
             IN  /\ current_height' = current_height
                 /\ refresh_tasks' = refresh_tasks
                 /\ \E w \in Workers :
                       submit_tasks' = submit_tasks
                           (-) SetToBag({[worker |-> w, sender |-> s, sequence |-> n]})
                 /\ BagCardinality(submit_tasks') = BagCardinality(submit_tasks) - 1
                 /\ DOMAIN sender_contexts' = DOMAIN sender_contexts
                 /\ \A o \in DOMAIN sender_contexts :
                       LET old == sender_contexts[o]
                           new == sender_contexts'[o]
                       IN  /\ new.node_next_sequence = old.node_next_sequence
                           /\ new.sender = old.sender
                           /\ DOMAIN new.pending_messages = DOMAIN old.pending_messages
                           /\ \A q \in DOMAIN old.pending_messages :
                                 /\ WithoutState(new.pending_messages[q])
                                       = WithoutState(old.pending_messages[q])
                                 /\ (o # s \/ q # n) =>
                                       new.pending_messages[q] = old.pending_messages[q]
       /\ last'.ev = "CurrentHeight" =>
             \A t \in BagToSet(submit_tasks), r \in Results :
                 /\ sender_contexts' = sender_contexts
                 /\ submit_tasks' = submit_tasks
                 /\ on_completed(sender_contexts, t, r).contexts
                       = (on_completed(sender_contexts, t, r).contexts)']_vars

\* a message that was submitted twice has timed out at a later height, while
\* another message of its sender is known
C24_Witness ==
    /\ last.ev = "Completed"
    /\ last.branch = "marked"
    /\ LET pm == sender_contexts[last.sender].pending_messages
           mc == pm[last.sequences[1]]
       IN  /\ mc.state = "Timeout"
           /\ mc.prev_try_count = 1
           /\ current_height > mc.submitted_at
           /\ Cardinality(DOMAIN pm) >= 2

\* C25: a DoSyncMessages that finds the context of a message of its batch
\* pending-or-success at the current height, as the second of two overlapping
\* batches does with the context the first one created, submits nothing for
\* that message and leaves the sender context alone at it, whatever
\* next_sequence it carries.
C25_NoDoubleSubmission ==
    [][last'.ev = "DoSyncMessages" =>
          \A t \in BagToSet(refresh_tasks), n \in {last'.next_sequence} :
              Synced(t, n) =>
                  \A i \in 1..Len(StepsOf(t, n)) :
                      LET st == StepsOf(t, n)[i]
                          q  == st.sequence
                          pm == st.before.pending_messages
                      IN  (/\ q \in DOMAIN pm
                           /\ PendingOrSuccessAt(pm[q], current_height)) =>
                              /\ ~Dispatched(st)
                              /\ ContextAfter(StepsOf(t, n), i, t.sender) = st.before
                              /\ q \notin Range(last'.sequences)
                              /\ sender_contexts'[t.sender].pending_messages[q] = pm[q]
                              /\ ~BagIn([worker |-> t.worker, sender |-> t.sender,
                                         sequence |-> q],
                                        submit_tasks' (-) submit_tasks)]_vars

\* the second of two batches holding the same sequence, both admitted before
\* the first one was synced, carries that sequence as next_sequence and finds
\* its context pending as the first batch left it (a context submitted once,
\* at the highest height, has been pending ever since)
C25_Witness ==
    /\ last.ev = "DoSyncMessages"
    /\ last.branch = "known_sender"
    /\ offers = 2
    /\ last.next_sequence # None
    /\ \E i \in 1..Len(last.steps) :
          LET q == last.steps[i].sequence IN
          /\ last.next_sequence = Some(q)
          /\ last.steps[i].was = "Pending"
          /\ last.steps[i].branch = "ignored"
          /\ sender_contexts[last.sender].pending_messages[q].state = "Pending"
          /\ sender_contexts[last.sender].pending_messages[q].prev_try_count = 0
          /\ sender_contexts[last.sender].pending_messages[q].submitted_at = MaxHeight
    /\ current_height = MaxHeight

\* C27: a message whose sequence is calculate_next_sequence(current_height)
\* when its turn comes is submitted; no message reaches the test of its
\* existing context being pending-or-success with that test succeeding.
C27_SequenceCheckSubmits ==
    [][last'.ev = "DoSyncMessages" =>
          /\ \A i \in 1..Len(last'.steps) : last'.steps[i].branch # "pending_or_success"
          /\ \A t \in BagToSet(refresh_tasks), n \in {last'.next_sequence} :
                Synced(t, n) =>
                    \A i \in 1..Len(StepsOf(t, n)) :
                        LET st == StepsOf(t, n)[i] IN
                        /\ st.branch # "pending_or_success"
                        /\ st.sequence = st.next_sequence =>
                              /\ Dispatched(st)
                              /\ st.sequence \in Range(last'.sequences)
                              /\ BagIn([worker |-> t.worker, sender |-> t.sender,
                                        sequence |-> st.sequence],
                                       submit_tasks' (-) submit_tasks)
                              /\ st.sequence \in DOMAIN st.before.pending_messages =>
                                    ~PendingOrSuccessAt(
                                         st.before.pending_messages[st.sequence],
                                         current_height)]_vars

\* a batch found the context of its first message successful and left it, and
\* submitted its second message, whose context had failed, again
C27_Witness ==
    /\ last.ev = "DoSyncMessages"
    /\ Len(last.steps) = 2
    /\ last.steps[1].was = "Successful"
    /\ last.steps[1].branch = "ignored"
    /\ last.steps[2].was = "Failure"
    /\ last.steps[2].branch = "retry"
    /\ last.sequences = <<last.steps[2].sequence>>

\* C28: a MessageContext in state Successful stays Successful and its message
\* is not submitted again, whatever event comes next, while its sender keeps
\* its SenderContext.
C28_SuccessfulStable ==
    [][\A s \in DOMAIN sender_contexts \cap DOMAIN sender_contexts' :
          \A n \in DOMAIN sender_contexts[s].pending_messages :
              sender_contexts[s].pending_messages[n].state = "Successful" =>
                  /\ n \in DOMAIN sender_contexts'[s].pending_messages
                  /\ sender_contexts'[s].pending_messages[n].state = "Successful"
                  /\ ~(/\ last'.ev = "DoSyncMessages"
                        /\ last'.sender = s
                        /\ n \in Range(last'.sequences))]_vars

\* the latest event submitted the message of this sender and sequence
JustSubmitted(s, n) ==
    /\ last'.ev = "DoSyncMessages"
    /\ last'.sender = s
    /\ n \in Range(last'.sequences)

\* C29: for every MessageContext, the submissions dispatched for its sender
\* and sequence since it was created number prev_try_count + 1; while the
\* context exists prev_try_count does not decrease; and submitted_at is the
\* current height of the latest submission: it is set to current_height by
\* every submission and changed by nothing else.
C29_RetryCounter ==
    [][\A s \in DOMAIN sender_contexts' :
          \A n \in DOMAIN sender_contexts'[s].pending_messages :
              LET new == sender_contexts'[s].pending_messages[n]
                  existed == /\ s \in DOMAIN sender_contexts
                             /\ n \in DOMAIN sender_contexts[s].pending_messages
              IN  /\ submissions'[s][n] = new.prev_try_count + 1
                  /\ JustSubmitted(s, n) =>
                        /\ new.submitted_at = current_height
                        /\ current_height' = current_height
                        /\ submissions'[s][n] = SubmissionsOf(s, n) + 1
                  /\ ~existed =>
                        /\ JustSubmitted(s, n)
                        /\ new.prev_try_count = 0
                  /\ existed =>
                        LET old == sender_contexts[s].pending_messages[n] IN
                        /\ new.prev_try_count >= old.prev_try_count
                        /\ ~JustSubmitted(s, n) =>
                              /\ new.submitted_at = old.submitted_at
                              /\ new.prev_try_count = old.prev_try_count
                              /\ submissions'[s][n] = submissions[s][n]]_vars

\* a message submitted at height 0 has just been submitted a second time at
\* height 7, next to a message of its sender that was submitted once
C29_Witness ==
    /\ last.ev = "DoSyncMessages"
    /\ current_height = 7
    /\ \E i \in 1..Len(last.steps) :
          LET q == last.steps[i].sequence
              pm == sender_contexts[last.sender].pending_messages
          IN  /\ last.steps[i].branch = "retry"
              /\ pm[q].prev_try_count = 1
              /\ pm[q].submitted_at = 7
              /\ submissions[last.sender][q] = 2
              /\ \E o \in DOMAIN pm :
                    /\ pm[o].prev_try_count = 0
                    /\ pm[o].submitted_at = 0
                    /\ submissions[last.sender][o] = 1

====
